---- MODULE Spec2Model ----
(***************************************************************************)
(* Model of src/main.py, the Eventim seat availability monitor.            *)
(*                                                                         *)
(* Five specifications share the definitions below:                        *)
(*   SpecFetch      fetch_seat_data, one step per statement that can fail  *)
(*   SpecClassify   the element loop of fetch_seat_data on every attribute *)
(*                  pair of the page alphabet                              *)
(*   SpecCompare    compare_and_notify on arbitrary pairs of snapshots     *)
(*   SpecRoundTrip  save_current_data followed by load_previous_data       *)
(*   Spec           main's monitoring loop                                 *)
(*                                                                         *)
(* Text is modelled as a tuple of one-character strings, so that lower()   *)
(* and the substring test `in` are computed and not assumed.  The JSON     *)
(* file is modelled by the decimal digits json.dump writes.                *)
(***************************************************************************)
EXTENDS Integers, Sequences, FiniteSets

VARIABLES
    \* ---- fetch_seat_data (locals of the call in progress)
    fpc,                \* position inside fetch_seat_data
    probe,              \* index into selectors_to_try
    sel,                \* index into seat_selectors
    remaining,          \* elements of the current result set not yet processed
    seat_counts,        \* the dict seat_counts
    total_seats_found,  \* the local total_seats_found
    chart_loaded,       \* the local chart_loaded
    fresult,            \* what the call gave its caller
    \* ---- history of the fetch in progress (not program state)
    faults,             \* seat-selector failures swallowed so far
    failed_steps,       \* the steps of this fetch that failed
    contrib,            \* seat selectors whose elements were added to seat_counts
    last_added,         \* counter increments made by the last element processed
    last_seat,          \* the attributes of the last element processed
    \* ---- main
    pc,                 \* position inside main's loop
    current_data,       \* main's current_data
    previous_data,      \* main's previous_data
    file,               \* the content of DATA_FILE
    out,                \* what compare_and_notify printed in this cycle
    now,                \* logical clock, read by datetime.now()
    exit_cause,         \* why main returned
    \* ---- history of main (not program state)
    steps,              \* the steps run so far in this cycle
    fetch_failed,       \* this cycle's fetch fell into its except branch
    load_status,        \* how this cycle's load ended
    save_status,        \* how this cycle's save ended
    fetched_prev,       \* the counts fetched in the cycle before
    prev_save_status    \* how the save of the cycle before ended

fetchVars == <<fpc, probe, sel, remaining, seat_counts, total_seats_found,
               chart_loaded, fresult, faults, failed_steps, contrib,
               last_added, last_seat>>
mainVars == <<pc, current_data, previous_data, file, out, now, exit_cause,
              steps, fetch_failed, load_status, save_status, fetched_prev,
              prev_save_status>>
vars == <<fetchVars, mainVars>>

(***************************************************************************)
(* Bounds of the model.                                                    *)
(***************************************************************************)
\* elements a seat selector's query returns, at most
MaxSeats == 2
\* seat-selector failures (query or attribute read) swallowed in one fetch
MaxFaults == 1
\* largest category count drawn for a fetched or stored snapshot
MaxCount == 1
\* cycles of main's loop
MaxCycles == 2

(***************************************************************************)
(* Text: characters, lower() and the substring test.                       *)
(***************************************************************************)
UpperChars == <<"A", "B", "C", "D", "E", "F", "G", "H", "I", "J", "K", "L", "M",
                "N", "O", "P", "Q", "R", "S", "T", "U", "V", "W", "X", "Y", "Z">>
LowerChars == <<"a", "b", "c", "d", "e", "f", "g", "h", "i", "j", "k", "l", "m",
                "n", "o", "p", "q", "r", "s", "t", "u", "v", "w", "x", "y", "z">>

\* str.lower() on one character
LowerChar(c) ==
    IF \E i \in 1..Len(UpperChars) : UpperChars[i] = c
    THEN LowerChars[CHOOSE i \in 1..Len(UpperChars) : UpperChars[i] = c]
    ELSE c

\* str.lower()
lower(s) == [i \in 1..Len(s) |-> LowerChar(s[i])]

\* the Python test `sub in s`
In(sub, s) ==
    \E i \in 0..(Len(s) - Len(sub)) : SubSeq(s, i + 1, i + Len(sub)) = sub

\* the keywords of the classification rules
kw_yellow == <<"y", "e", "l", "l", "o", "w">>
kw_gold == <<"g", "o", "l", "d">>
kw_red == <<"r", "e", "d">>
kw_crimson == <<"c", "r", "i", "m", "s", "o", "n">>
kw_grey == <<"g", "r", "e", "y">>
kw_gray == <<"g", "r", "a", "y">>
kw_silver == <<"s", "i", "l", "v", "e", "r">>
kw_green == <<"g", "r", "e", "e", "n">>
kw_blue == <<"b", "l", "u", "e">>
kw_available == <<"a", "v", "a", "i", "l", "a", "b", "l", "e">>
kw_free == <<"f", "r", "e", "e">>
kw_premium == <<"p", "r", "e", "m", "i", "u", "m">>
kw_vip == <<"v", "i", "p">>
kw_sold == <<"s", "o", "l", "d">>
kw_taken == <<"t", "a", "k", "e", "n">>
kw_occupied == <<"o", "c", "c", "u", "p", "i", "e", "d">>

(***************************************************************************)
(* Snapshots.                                                              *)
(***************************************************************************)
Colors == {"yellow", "red", "grey"}

\* the order compare_and_notify walks the categories in
ColorOrder == <<"yellow", "red", "grey">>

\* {"yellow": 0, "red": 0, "grey": 0}
ZeroCounts == [c \in Colors |-> 0]

Sum(counts) == counts["yellow"] + counts["red"] + counts["grey"]

(***************************************************************************)
(* Attributes of a seat element: get_attribute gives None or a string.     *)
(***************************************************************************)
None == [present |-> FALSE, val |-> <<>>]
Str(s) == [present |-> TRUE, val |-> s]

\* fill attributes the page may carry
FillAttrs ==
    { None,
      Str(<<>>),
      Str(<<"G", "o", "l", "d">>),
      Str(<<"y", "e", "l", "l", "o", "w">>),
      Str(<<"c", "r", "i", "m", "s", "o", "n">>),
      Str(<<"d", "a", "r", "k", "r", "e", "d">>),
      Str(<<"S", "I", "L", "V", "E", "R">>),
      Str(<<"g", "r", "e", "y">>),
      Str(<<"#", "0", "0", "f", "f", "0", "0">>),
      Str(<<"l", "i", "g", "h", "t", "g", "r", "e", "e", "n">>),
      Str(<<"b", "l", "u", "e">>),
      Str(<<"p", "u", "r", "p", "l", "e">>) }

\* class attributes the page may carry
ClassAttrs ==
    { None,
      Str(<<"s", "e", "a", "t">>),
      Str(<<"s", "e", "a", "t", " ", "a", "v", "a", "i", "l", "a", "b", "l", "e">>),
      Str(<<"s", "e", "a", "t", " ", "a", "v", "a", "i", "l", "a", "b", "l", "e",
            " ", "v", "i", "p">>),
      Str(<<"s", "e", "a", "t", " ", "f", "r", "e", "e", " ", "p", "r", "e", "m",
            "i", "u", "m">>),
      Str(<<"s", "e", "a", "t", " ", "s", "o", "l", "d", " ", "t", "a", "k", "e",
            "n">>),
      Str(<<"S", "e", "a", "t", " ", "O", "c", "c", "u", "p", "i", "e", "d">>) }

(***************************************************************************)
(* The classification inside fetch_seat_data's element loop.               *)
(***************************************************************************)
\* the counter the fill colour increments ("none": no increment)
FillCategory(fill) ==
    IF ~fill.present \/ fill.val = <<>>
    THEN "none"
    ELSE LET fill_color == lower(fill.val)
         IN  IF In(kw_yellow, fill_color) \/ In(kw_gold, fill_color)
             THEN "yellow"
             ELSE IF In(kw_red, fill_color) \/ In(kw_crimson, fill_color)
             THEN "red"
             ELSE IF In(kw_grey, fill_color) \/ In(kw_gray, fill_color)
                     \/ In(kw_silver, fill_color)
             THEN "grey"
             ELSE IF In(kw_green, fill_color) \/ In(kw_blue, fill_color)
             THEN "yellow"
             ELSE "grey"

\* the counter the class name increments ("none": no increment)
ClassCategory(cls) ==
    LET class_name == lower(IF cls.present THEN cls.val ELSE <<>>)
    IN  IF In(kw_available, class_name) \/ In(kw_free, class_name)
        THEN IF In(kw_premium, class_name) \/ In(kw_vip, class_name)
             THEN "red"
             ELSE "yellow"
        ELSE IF In(kw_sold, class_name) \/ In(kw_taken, class_name)
                \/ In(kw_occupied, class_name)
        THEN "grey"
        ELSE "none"

\* seat_counts[category] += 1
Inc(counts, category) ==
    IF category = "none" THEN counts ELSE [counts EXCEPT ![category] = @ + 1]

\* one pass of the element loop's body over seat_counts
CountSeat(counts, fill, cls) ==
    Inc(Inc(counts, FillCategory(fill)), ClassCategory(cls))

\* every element the page alphabet allows: <<fill, class>>
AllSeats == FillAttrs \X ClassAttrs

\* the elements drawn while the selector loop is explored
SampleSeats ==
    { <<None, None>>,
      <<Str(<<"G", "o", "l", "d">>), None>>,
      <<Str(<<"c", "r", "i", "m", "s", "o", "n">>),
        Str(<<"s", "e", "a", "t", " ", "s", "o", "l", "d", " ", "t", "a", "k", "e",
              "n">>)>>,
      <<Str(<<"#", "0", "0", "f", "f", "0", "0">>),
        Str(<<"s", "e", "a", "t", " ", "a", "v", "a", "i", "l", "a", "b", "l", "e">>)>> }

(***************************************************************************)
(* fetch_seat_data.                                                        *)
(***************************************************************************)
\* the chart-presence selectors, in the order they are probed
selectors_to_try ==
    <<"svg", "[class*='seat']", "[class*='chart']", ".seatmap",
      "[data-testid*='seat']">>

\* the seat selectors, in the order they are queried
seat_selectors ==
    <<"svg g[class*='seat']", "svg circle[class*='seat']",
      "svg rect[class*='seat']", "[class*='seat']", "svg [fill]",
      "svg [class*='available']", "svg [class*='sold']">>

\* the steps whose exception reaches the outer `except Exception`
OuterSteps == {"launch", "navigate", "probe_error", "content", "close"}

\* the steps whose exception is caught inside the function body
InnerSteps == {"probe_timeout", "query", "attribute"}

\* the value of the outer except branch: return {"yellow": 0, "red": 0, "grey": 0}
FetchFailureResult == ZeroCounts

\* an outer handler that lets the exception through to the caller
OuterExcept_Propagates == [status |-> "raised", counts |-> ZeroCounts]

\* the outer `except Exception as e:` branch of fetch_seat_data
OuterExcept == [status |-> "returned", counts |-> FetchFailureResult]

\* main variables while main is not running
MainIdle ==
    /\ pc = "idle"
    /\ current_data = ZeroCounts
    /\ previous_data = ZeroCounts
    /\ file = [kind |-> "absent", data |-> [k \in {} |-> <<>>]]
    /\ out = <<>>
    /\ now = 0
    /\ exit_cause = "none"
    /\ steps = <<>>
    /\ fetch_failed = FALSE
    /\ load_status = "none"
    /\ save_status = "none"
    /\ fetched_prev = ZeroCounts
    /\ prev_save_status = "none"

\* the locals of fetch_seat_data at the given position, nothing done yet
FetchAt(position) ==
    /\ fpc = position
    /\ probe = 1
    /\ sel = 1
    /\ remaining = 0
    /\ seat_counts = ZeroCounts
    /\ total_seats_found = 0
    /\ chart_loaded = FALSE
    /\ fresult = [status |-> "running", counts |-> ZeroCounts]
    /\ faults = 0
    /\ failed_steps = {}
    /\ contrib = {}
    /\ last_added = 0
    /\ last_seat = <<>>

\* entry of fetch_seat_data
InitFetch == FetchAt("launch") /\ MainIdle

\* the history variables of the element loop
seatHistory == <<contrib, last_added, last_seat>>

\* an exception that leaves the `with` block: the outer except branch runs
FailOuter(step) ==
    /\ failed_steps' = failed_steps \cup {step}
    /\ fresult' = OuterExcept
    /\ fpc' = "done"

\* a step outside the loops: it passes control on, or raises
PlainStep(step, next) ==
    /\ \/ fpc' = next /\ UNCHANGED <<failed_steps, fresult>>
       \/ FailOuter(step)
    /\ UNCHANGED <<probe, sel, remaining, seat_counts, total_seats_found,
                   chart_loaded, faults, seatHistory>>
    /\ UNCHANGED mainVars

\* where control goes once the seat-selector loop is left
AfterLoop(total) == IF total = 0 THEN "content" ELSE "close"

\* `continue` (or falling off the loop body) in the seat-selector loop
NextSelector(total) ==
    IF sel < Len(seat_selectors)
    THEN sel' = sel + 1 /\ fpc' = "query"
    ELSE sel' = sel /\ fpc' = AfterLoop(total)

\* sync_playwright(), chromium.launch, new_page, set_extra_http_headers
FLaunch == fpc = "launch" /\ PlainStep("launch", "navigate")

\* page.goto(URL, wait_until="networkidle")
FNavigate == fpc = "navigate" /\ PlainStep("navigate", "probe")

\* one pass of the chart-presence loop: page.wait_for_selector(selector)
FProbe ==
    /\ fpc = "probe"
    /\ \/ /\ chart_loaded' = TRUE
          /\ probe' = 0
          /\ fpc' = "query"
          /\ UNCHANGED <<failed_steps, fresult>>
       \/ /\ failed_steps' = failed_steps \cup {"probe_timeout"}
          /\ IF probe < Len(selectors_to_try)
             THEN probe' = probe + 1 /\ fpc' = "probe"
             ELSE probe' = 0 /\ fpc' = "query"
          /\ UNCHANGED <<chart_loaded, fresult>>
       \/ /\ FailOuter("probe_error")
          /\ UNCHANGED <<probe, chart_loaded>>
    /\ UNCHANGED <<sel, remaining, seat_counts, total_seats_found, faults,
                   seatHistory>>
    /\ UNCHANGED mainVars

\* page.query_selector_all(selector) and the test `if seats:`
FQuery ==
    /\ fpc = "query"
    /\ \/ /\ faults < MaxFaults
          /\ faults' = faults + 1
          /\ failed_steps' = failed_steps \cup {"query"}
          /\ NextSelector(total_seats_found)
          /\ UNCHANGED remaining
       \/ /\ NextSelector(total_seats_found)
          /\ UNCHANGED <<remaining, faults, failed_steps>>
       \/ \E n \in 1..MaxSeats :
             /\ remaining' = n
             /\ fpc' = "seat"
             /\ UNCHANGED <<sel, faults, failed_steps>>
    /\ UNCHANGED <<probe, seat_counts, total_seats_found, chart_loaded, fresult,
                   seatHistory>>
    /\ UNCHANGED mainVars

\* the body of `for seat in seats:` on an element with the given attributes;
\* after the last element, the test `if total_seats_found > 0: break`
ProcessSeat(fill, cls) ==
    /\ seat_counts' = CountSeat(seat_counts, fill, cls)
    /\ total_seats_found' = total_seats_found + 1
    /\ last_added' = Sum(seat_counts') - Sum(seat_counts)
    /\ contrib' = IF seat_counts' # seat_counts THEN contrib \cup {sel} ELSE contrib
    /\ remaining' = remaining - 1
    /\ IF remaining' > 0
       THEN fpc' = "seat" /\ sel' = sel
       ELSE IF total_seats_found' > 0
       THEN fpc' = AfterLoop(total_seats_found') /\ sel' = sel
       ELSE NextSelector(total_seats_found')

\* one pass of `for seat in seats:`, or seat.get_attribute raising
FSeat ==
    /\ fpc = "seat"
    /\ \/ /\ faults < MaxFaults
          /\ faults' = faults + 1
          /\ failed_steps' = failed_steps \cup {"attribute"}
          /\ remaining' = 0
          /\ NextSelector(total_seats_found)
          /\ UNCHANGED <<seat_counts, total_seats_found, contrib, last_added>>
       \/ \E seat \in SampleSeats :
             /\ ProcessSeat(seat[1], seat[2])
             /\ UNCHANGED <<faults, failed_steps>>
    /\ UNCHANGED <<probe, chart_loaded, fresult, last_seat>>
    /\ UNCHANGED mainVars

\* `if total_seats_found == 0:` page.content()
FContent == fpc = "content" /\ PlainStep("content", "close")

\* browser.close() and `return seat_counts`
FClose ==
    /\ fpc = "close"
    /\ \/ /\ fresult' = [status |-> "returned", counts |-> seat_counts]
          /\ fpc' = "done"
          /\ UNCHANGED failed_steps
       \/ FailOuter("close")
    /\ UNCHANGED <<probe, sel, remaining, seat_counts, total_seats_found,
                   chart_loaded, faults, seatHistory>>
    /\ UNCHANGED mainVars

NextFetch == FLaunch \/ FNavigate \/ FProbe \/ FQuery \/ FSeat \/ FContent \/ FClose

SpecFetch == InitFetch /\ [][NextFetch]_vars

(***************************************************************************)
(* The element loop alone, on every element of the page alphabet.          *)
(***************************************************************************)
\* the element loop entered with a result set of 1..MaxSeats elements
InitClassify ==
    /\ fpc = "seat"
    /\ probe = 0
    /\ sel = 1
    /\ remaining \in 1..MaxSeats
    /\ seat_counts = ZeroCounts
    /\ total_seats_found = 0
    /\ chart_loaded = TRUE
    /\ fresult = [status |-> "running", counts |-> ZeroCounts]
    /\ faults = 0
    /\ failed_steps = {}
    /\ contrib = {}
    /\ last_added = 0
    /\ last_seat = <<>>
    /\ MainIdle

\* one pass of `for seat in seats:` on any element of the page alphabet
FSeatOfPage ==
    /\ fpc = "seat"
    /\ \E seat \in AllSeats :
          /\ ProcessSeat(seat[1], seat[2])
          /\ last_seat' = seat
    /\ UNCHANGED <<probe, chart_loaded, fresult, faults, failed_steps>>
    /\ UNCHANGED mainVars

NextClassify == FSeatOfPage

SpecClassify == InitClassify /\ [][NextClassify]_vars

(***************************************************************************)
(* The JSON file DATA_FILE: integers are stored as their decimal digits.   *)
(***************************************************************************)
DigitChars == <<"0", "1", "2", "3", "4", "5", "6", "7", "8", "9">>

\* an encoder that writes the least significant digit first
RECURSIVE ToDigits_LowFirst(_)
ToDigits_LowFirst(n) ==
    IF n < 10
    THEN <<DigitChars[n + 1]>>
    ELSE <<DigitChars[(n % 10) + 1]>> \o ToDigits_LowFirst(n \div 10)

\* json.dump of a non-negative int
RECURSIVE ToDigits(_)
ToDigits(n) ==
    IF n < 10
    THEN <<DigitChars[n + 1]>>
    ELSE Append(ToDigits(n \div 10), DigitChars[(n % 10) + 1])

DigitValue(d) == (CHOOSE i \in 1..Len(DigitChars) : DigitChars[i] = d) - 1

\* json.load of a run of decimal digits
RECURSIVE FromDigits(_)
FromDigits(s) ==
    IF Len(s) = 0
    THEN 0
    ELSE 10 * FromDigits(SubSeq(s, 1, Len(s) - 1)) + DigitValue(s[Len(s)])

\* the keys save_current_data adds to the snapshot
StampKeys == {"timestamp", "last_check"}

NoData == [k \in {} |-> <<>>]

\* DATA_FILE does not exist
AbsentFile == [kind |-> "absent", data |-> NoData]

\* DATA_FILE exists and does not hold a JSON document (empty, cut short)
CorruptFile == [kind |-> "corrupt", data |-> NoData]

\* DATA_FILE holds the JSON object `data`
JsonFile(data) == [kind |-> "json", data |-> data]

\* a save that leaves an existing file as it is
SaveFile_KeepsExisting(f, data, t, outcome) ==
    IF outcome = "ok" /\ f.kind = "absent"
    THEN JsonFile([k \in DOMAIN data \cup StampKeys |->
                      IF k \in StampKeys THEN ToDigits(t) ELSE ToDigits(data[k])])
    ELSE f

\* the file save_current_data(data) leaves at time t: open(DATA_FILE, "w")
\* may fail (the file stays) and json.dump may fail (the file is cut short)
SaveFile(f, data, t, outcome) ==
    CASE outcome = "ok" ->
           JsonFile([k \in DOMAIN data \cup StampKeys |->
                        IF k \in StampKeys THEN ToDigits(t) ELSE ToDigits(data[k])])
      [] outcome = "open_failed" -> f
      [] outcome = "write_failed" -> CorruptFile

SaveOutcomes == {"ok", "open_failed", "write_failed"}

\* load_previous_data(): the value returned and the branch taken
load_previous_data(f, ioerr) ==
    IF f.kind = "absent"
    THEN [data |-> ZeroCounts, status |-> "absent"]
    ELSE IF ioerr \/ f.kind = "corrupt"
    THEN [data |-> ZeroCounts, status |-> "error"]
    ELSE [data |-> [k \in DOMAIN f.data |-> FromDigits(f.data[k])],
          status |-> "read"]

(***************************************************************************)
(* compare_and_notify.                                                     *)
(***************************************************************************)
\* the label of a category in the messages
Category(color) ==
    IF color = "yellow" THEN "Yellow" ELSE IF color = "red" THEN "Red" ELSE "Sold (grey)"

\* the line printed when no category changed
NoChanges == [text |-> "No changes detected since last check",
              category |-> "", diff |-> 0]

\* a reporter that prints increases only
NotifyFor_IncreasesOnly(color, diff) ==
    IF diff > 0
    THEN <<[text |-> "More seats available", category |-> Category(color),
            diff |-> diff]>>
    ELSE <<>>

\* what the loop body prints for one category
NotifyFor(color, diff) ==
    IF diff # 0
    THEN IF diff > 0
         THEN <<[text |-> "More seats available", category |-> Category(color),
                 diff |-> diff]>>
         ELSE <<[text |-> "New tickets sold in category",
                 category |-> Category(color), diff |-> diff]>>
    ELSE <<>>

\* the loop `for color in ["yellow", "red", "grey"]` from position i on, then
\* the test of changes_detected; a missing key raises KeyError
RECURSIVE CompareFrom(_, _, _, _, _)
CompareFrom(i, current, previous, printed, changes_detected) ==
    IF i > Len(ColorOrder)
    THEN [raised |-> FALSE,
          printed |-> IF changes_detected THEN printed ELSE Append(printed, NoChanges)]
    ELSE LET color == ColorOrder[i]
         IN  IF color \notin DOMAIN current \/ color \notin DOMAIN previous
             THEN [raised |-> TRUE, printed |-> printed]
             ELSE LET diff == current[color] - previous[color]
                  IN  CompareFrom(i + 1, current, previous,
                                  printed \o NotifyFor(color, diff),
                                  changes_detected \/ diff # 0)

compare_and_notify(current, previous) ==
    CompareFrom(1, current, previous, <<>>, FALSE)

(***************************************************************************)
(* main.                                                                   *)
(***************************************************************************)
\* the steps of one cycle, in the order of the loop body
CycleOrder == <<"fetch", "load", "report", "compare", "save", "wait">>

\* a loop body that saves before it loads
StepAfter_SaveFirst(step) ==
    CASE step = "fetch" -> "save"
      [] step = "save" -> "load"
      [] step = "load" -> "report"
      [] step = "report" -> "compare"
      [] step = "compare" -> "wait"
      [] step = "wait" -> "fetch"

\* the statement that follows each step of the loop body
StepAfter(step) ==
    CASE step = "fetch" -> "load"
      [] step = "load" -> "report"
      [] step = "report" -> "compare"
      [] step = "compare" -> "save"
      [] step = "save" -> "wait"
      [] step = "wait" -> "fetch"

\* the snapshots a fetch that did not fail may return
FetchedCounts == [Colors -> 0..MaxCount]

\* the JSON objects DATA_FILE may hold when the program starts: what an
\* earlier run saved, and objects with any subset of the category keys
StartObjects ==
    { [k \in Colors \cup StampKeys |->
          IF k \in StampKeys THEN ToDigits(0) ELSE ToDigits(v[k])] : v \in FetchedCounts }
    \cup UNION { { [k \in S |-> ToDigits(v[k])] : v \in [S -> 0..MaxCount] }
                : S \in SUBSET Colors }

\* the contents of DATA_FILE when the program starts
StartFiles == {AbsentFile, CorruptFile} \cup {JsonFile(d) : d \in StartObjects}

fetchLocals == <<fpc, probe, sel, remaining, seat_counts, total_seats_found,
                 chart_loaded, fresult, faults, failed_steps, contrib,
                 last_added, last_seat>>

\* main's `except Exception as e:` branch: log, print, and fall out of main
ExceptionHandler ==
    /\ pc' = "exited"
    /\ exit_cause' = "exception"

\* current_data = fetch_seat_data().  The call is taken whole here: as
\* SpecFetch shows, it never raises and returns either the counts it
\* accumulated or, from its outer except branch, FetchFailureResult.
MFetch ==
    /\ pc = "fetch"
    /\ now < MaxCycles
    /\ \E failed \in BOOLEAN, counts \in FetchedCounts :
          /\ fetch_failed' = failed
          /\ current_data' = IF failed THEN FetchFailureResult ELSE counts
    /\ pc' = StepAfter("fetch")
    /\ steps' = <<"fetch">>
    /\ out' = <<>>
    /\ load_status' = "none"
    /\ save_status' = "none"
    /\ UNCHANGED <<previous_data, file, now, exit_cause, fetched_prev,
                   prev_save_status>>
    /\ UNCHANGED fetchLocals

\* previous_data = load_previous_data(), entered at `from`
LoadStep(from, to) ==
    /\ pc = from
    /\ \E ioerr \in BOOLEAN :
          LET r == load_previous_data(file, ioerr)
          IN  /\ previous_data' = r.data
              /\ load_status' = r.status
    /\ pc' = to
    /\ steps' = Append(steps, "load")
    /\ UNCHANGED <<current_data, file, out, now, exit_cause, fetch_failed,
                   save_status, fetched_prev, prev_save_status>>
    /\ UNCHANGED fetchLocals

MLoad == LoadStep("load", StepAfter("load"))

\* print_seat_summary(current_data)
MReport ==
    /\ pc = "report"
    /\ steps' = Append(steps, "report")
    /\ IF Colors \subseteq DOMAIN current_data
       THEN pc' = StepAfter("report") /\ UNCHANGED exit_cause
       ELSE ExceptionHandler
    /\ UNCHANGED <<current_data, previous_data, file, out, now, fetch_failed,
                   load_status, save_status, fetched_prev, prev_save_status>>
    /\ UNCHANGED fetchLocals

\* compare_and_notify(current_data, previous_data)
MCompare ==
    /\ pc = "compare"
    /\ steps' = Append(steps, "compare")
    /\ LET r == compare_and_notify(current_data, previous_data)
       IN  /\ out' = r.printed
           /\ IF r.raised
              THEN ExceptionHandler
              ELSE pc' = StepAfter("compare") /\ UNCHANGED exit_cause
    /\ UNCHANGED <<current_data, previous_data, file, now, fetch_failed,
                   load_status, save_status, fetched_prev, prev_save_status>>
    /\ UNCHANGED fetchLocals

\* save_current_data(current_data), entered at `from`
SaveStep(from, to) ==
    /\ pc = from
    /\ \E outcome \in SaveOutcomes :
          /\ file' = SaveFile(file, current_data, now, outcome)
          /\ save_status' = outcome
    /\ pc' = to
    /\ steps' = Append(steps, "save")
    /\ UNCHANGED <<current_data, previous_data, out, now, exit_cause,
                   fetch_failed, load_status, fetched_prev, prev_save_status>>
    /\ UNCHANGED fetchLocals

MSave == SaveStep("save", StepAfter("save"))

\* time.sleep(CHECK_INTERVAL), then the next pass of `while True`
MWait ==
    /\ pc = "wait"
    /\ now' = now + 1
    /\ pc' = StepAfter("wait")
    /\ steps' = Append(steps, "wait")
    /\ fetched_prev' = current_data
    /\ prev_save_status' = save_status
    /\ UNCHANGED <<current_data, previous_data, file, out, exit_cause,
                   fetch_failed, load_status, save_status>>
    /\ UNCHANGED fetchLocals

\* Ctrl-C anywhere in the loop: `except KeyboardInterrupt`
MInterrupt ==
    /\ pc \in {"fetch", "load", "report", "compare", "save", "wait"}
    /\ pc' = "exited"
    /\ exit_cause' = "KeyboardInterrupt"
    /\ UNCHANGED <<current_data, previous_data, file, out, now, steps,
                   fetch_failed, load_status, save_status, fetched_prev,
                   prev_save_status>>
    /\ UNCHANGED fetchLocals

\* main() entered: nothing fetched or loaded yet
Init ==
    /\ FetchAt("idle")
    /\ pc = "fetch"
    /\ current_data = ZeroCounts
    /\ previous_data = ZeroCounts
    /\ file \in StartFiles
    /\ out = <<>>
    /\ now = 0
    /\ exit_cause = "none"
    /\ steps = <<>>
    /\ fetch_failed = FALSE
    /\ load_status = "none"
    /\ save_status = "none"
    /\ fetched_prev = ZeroCounts
    /\ prev_save_status = "none"

Next == MFetch \/ MLoad \/ MReport \/ MCompare \/ MSave \/ MWait \/ MInterrupt

Spec == Init /\ [][Next]_vars

(***************************************************************************)
(* compare_and_notify on every pair of snapshots.                          *)
(***************************************************************************)
InitCompare ==
    /\ FetchAt("idle")
    /\ pc = "compare"
    /\ current_data \in FetchedCounts
    /\ previous_data \in FetchedCounts
    /\ file = AbsentFile
    /\ out = <<>>
    /\ now = 0
    /\ exit_cause = "none"
    /\ steps = <<>>
    /\ fetch_failed = FALSE
    /\ load_status = "none"
    /\ save_status = "none"
    /\ fetched_prev = ZeroCounts
    /\ prev_save_status = "none"

NextCompare == MCompare

SpecCompare == InitCompare /\ [][NextCompare]_vars

(***************************************************************************)
(* save_current_data followed by load_previous_data.                       *)
(***************************************************************************)
\* counts of one, two and three digits
RoundTripValues == (0..MaxCount) \cup {9, 10, 11, 100, 120}

RTSave == SaveStep("rt_save", "rt_load")

RTLoad == LoadStep("rt_load", "rt_done")

InitRoundTrip ==
    /\ FetchAt("idle")
    /\ pc = "rt_save"
    /\ current_data \in [Colors -> RoundTripValues]
    /\ previous_data = ZeroCounts
    /\ file \in {AbsentFile, CorruptFile, JsonFile([c \in Colors |-> ToDigits(1)])}
    /\ out = <<>>
    /\ now = 0
    /\ exit_cause = "none"
    /\ steps = <<>>
    /\ fetch_failed = FALSE
    /\ load_status = "none"
    /\ save_status = "none"
    /\ fetched_prev = ZeroCounts
    /\ prev_save_status = "none"

NextRoundTrip == RTSave \/ RTLoad

SpecRoundTrip == InitRoundTrip /\ [][NextRoundTrip]_vars

(***************************************************************************)
(* Properties.                                                             *)
(***************************************************************************)
\* the category counts of a loaded snapshot, where it has them
CountsOf(data) == [c \in Colors \cap DOMAIN data |-> data[c]]

\* the category counts DATA_FILE holds, where it holds a JSON object
PersistedCounts ==
    IF file.kind = "json"
    THEN [c \in Colors \cap DOMAIN file.data |-> FromDigits(file.data[c])]
    ELSE [c \in {} |-> 0]

\* the positions in `out` of the messages about a category
MessagesFor(color) == {i \in 1..Len(out) : out[i].category = Category(color)}

\* compare_and_notify printed the "tickets sold" line for a category
SoldMessage(color) ==
    \E i \in MessagesFor(color) : out[i].text = "New tickets sold in category"

\* compare_and_notify has run in this cycle and the cycle has not slept yet
ComparedInCycle == Len(steps) \in {4, 5} /\ steps[4] = "compare"

\* the steps run so far in this cycle follow the loop body's order
StepsInOrder ==
    /\ Len(steps) <= Len(CycleOrder)
    /\ \A i \in 1..Len(steps) : steps[i] = CycleOrder[i]

\* C1 (Spec): an exception raised inside a cycle is swallowed and the loop goes
\* on; main's loop ends only by an operator interrupt (KeyboardInterrupt).
C1_OnlyInterruptEndsLoop == pc = "exited" => exit_cause = "KeyboardInterrupt"

\* C2 (SpecClassify): every element processed adds 1 to at most one counter,
\* so the three counts together never exceed the number of elements processed.
C2_OneCounterPerSeat ==
    /\ last_added <= 1
    /\ Sum(seat_counts) <= total_seats_found

\* C3 as stated (SpecFetch): fetch_seat_data never raises, and whenever any
\* step of the fetch failed it returns the all-zero counts.
C3_AnyFailureGivesZero ==
    /\ fresult.status # "raised"
    /\ fresult.status = "returned" /\ failed_steps # {} => fresult.counts = ZeroCounts

\* C3 as amended (SpecFetch): fetch_seat_data never raises; it always returns
\* three counts; a failure of launch, navigation, a probe error, the content
\* read or close gives the all-zero counts; with none of those it returns
\* seat_counts as accumulated, whatever queries or attribute reads failed.
C3_NeverRaises ==
    /\ fresult.status # "raised"
    /\ fpc = "done" =>
         /\ fresult.status = "returned"
         /\ fresult.counts \in [Colors -> Nat]
         /\ failed_steps \cap OuterSteps # {} => fresult.counts = ZeroCounts
         /\ failed_steps \cap OuterSteps = {} => fresult.counts = seat_counts

\* C3 witness: seats were counted, then browser.close() failed and the fetch
\* returned all zero.
C3_Witness ==
    /\ fpc = "done"
    /\ "close" \in failed_steps
    /\ seat_counts # ZeroCounts
    /\ fresult = [status |-> "returned", counts |-> ZeroCounts]

\* C4 (SpecCompare): compare_and_notify prints exactly one message for each
\* category whose count differs, none for a category whose count is equal, and
\* the "no changes" line exactly when all three counts are equal.
C4_OneMessagePerChange ==
    pc = "save" =>
      /\ \A c \in Colors :
            Cardinality(MessagesFor(c)) =
               IF current_data[c] # previous_data[c] THEN 1 ELSE 0
      /\ Cardinality({i \in 1..Len(out) : out[i] = NoChanges}) =
            IF \A c \in Colors : current_data[c] = previous_data[c] THEN 1 ELSE 0

\* C4 witness: one category rose, one fell, one stayed, and compare has run.
C4_Witness ==
    /\ pc = "save"
    /\ current_data["yellow"] < previous_data["yellow"]
    /\ current_data["red"] = previous_data["red"]
    /\ current_data["grey"] > previous_data["grey"]
    /\ Len(out) = 2

\* C5 (SpecCompare): a rise of the sold (grey) count is reported with the
\* "tickets sold" message and not with "more available"; a fall of an available
\* category is reported as tickets sold.
C5_SoldRiseIsSale ==
    pc = "save" =>
      /\ current_data["grey"] > previous_data["grey"] =>
           /\ SoldMessage("grey")
           /\ \A i \in MessagesFor("grey") : out[i].text # "More seats available"
      /\ \A c \in {"yellow", "red"} :
            current_data[c] < previous_data[c] => SoldMessage(c)

\* C6 (Spec): load_previous_data always returns a snapshot with a count for
\* each of the three categories, all zero when the file is absent or unreadable.
C6_LoadGivesAllCounts ==
    load_status # "none" =>
      /\ Colors \subseteq DOMAIN previous_data
      /\ load_status \in {"absent", "error"} => previous_data = ZeroCounts

\* C7 as stated (SpecRoundTrip): save_current_data(s) followed by
\* load_previous_data() returns the three counts of s.
C7_RoundTrip ==
    pc = "rt_done" =>
      /\ Colors \subseteq DOMAIN previous_data
      /\ \A c \in Colors : previous_data[c] = current_data[c]

\* C7 as amended (SpecRoundTrip): when the write succeeded and the file was
\* read back without error, save_current_data(s) followed by
\* load_previous_data() returns the three counts of s.
C7_RoundTripWhenStored ==
    pc = "rt_done" /\ save_status = "ok" /\ load_status = "read" =>
      /\ Colors \subseteq DOMAIN previous_data
      /\ \A c \in Colors : previous_data[c] = current_data[c]

\* C7 witness: a snapshot with counts of three and two digits went through a
\* successful save and load.
C7_Witness ==
    /\ pc = "rt_done"
    /\ save_status = "ok"
    /\ load_status = "read"
    /\ current_data["yellow"] = 120
    /\ current_data["red"] = 10

\* C8 (SpecFetch): the counts are built from the elements of exactly one
\* selector: no element of a second selector is added to counts that hold
\* contributions of an earlier one, also when an attribute read raises.
C8_OneSelectorOnly == Cardinality(contrib) <= 1

\* C9 as stated (Spec): the steps of a cycle run in the loop body's order, the
\* previous counts compared in cycle n+1 are the counts fetched in cycle n, and
\* after a cycle whose save succeeded the persisted counts are the fetched ones.
C9_PreviousIsLastFetched ==
    /\ StepsInOrder
    /\ ComparedInCycle /\ now >= 1 => CountsOf(previous_data) = fetched_prev
    /\ pc = "wait" /\ save_status = "ok" => PersistedCounts = current_data

\* C9 as amended (Spec): as C9, with the previous counts of cycle n+1 being
\* those fetched in cycle n when cycle n's save succeeded and cycle n+1's load
\* read the file without error.
C9_PreviousIsLastSaved ==
    /\ StepsInOrder
    /\ ComparedInCycle /\ now >= 1 /\ prev_save_status = "ok" /\ load_status = "read"
         => CountsOf(previous_data) = fetched_prev
    /\ pc = "wait" /\ save_status = "ok" => PersistedCounts = current_data

\* C9 witness: a second cycle compared against what the first one fetched and
\* saved, and saved counts that differ from them.
C9_Witness ==
    /\ pc = "wait"
    /\ now >= 1
    /\ prev_save_status = "ok"
    /\ load_status = "read"
    /\ save_status = "ok"
    /\ fetched_prev # current_data
    /\ fetched_prev # ZeroCounts

\* C10 as stated (Spec): after a cycle whose fetch failed the all-zero result
\* has been compared (a "tickets sold" message for every category whose
\* previous count was positive) and the persisted counts are all zero.
C10_FailedFetchStoresZero ==
    pc = "wait" /\ fetch_failed =>
      /\ current_data = ZeroCounts
      /\ \A c \in Colors : previous_data[c] > 0 => SoldMessage(c)
      /\ PersistedCounts = ZeroCounts

\* C10 as amended (Spec): after a cycle whose fetch failed the all-zero result
\* has been compared (a "tickets sold" message for every category whose
\* previous count was positive), whatever the save did; the persisted counts
\* are all zero when the save succeeded; a failed write leaves the file cut
\* short, holding no counts; a failed open leaves the file as it was, so it
\* still holds the counts the cycle before fetched and saved.
C10_FailedFetchSavedStoresZero ==
    pc = "wait" /\ fetch_failed =>
      /\ current_data = ZeroCounts
      /\ \A c \in Colors : previous_data[c] > 0 => SoldMessage(c)
      /\ save_status = "ok" => PersistedCounts = ZeroCounts
      /\ save_status = "write_failed" => file = CorruptFile
      /\ save_status = "open_failed" /\ prev_save_status = "ok"
           => PersistedCounts = fetched_prev

\* C10 witness: the cycle before fetched and saved seats, this cycle's fetch
\* failed, and its all-zero result has been saved over them.
C10_Witness ==
    /\ pc = "wait"
    /\ fetch_failed
    /\ save_status = "ok"
    /\ prev_save_status = "ok"
    /\ load_status = "read"
    /\ fetched_prev # ZeroCounts
    /\ SoldMessage("yellow")

====
